---- MODULE Spec2Model ----
(***************************************************************************)
(* Coordinator ("MCP") of the Dashboard-MCP repository: the agent registry, *)
(* the task ledger and the dispatcher of routes/mcp.py over the tables of   *)
(* models/user.py.  Every HTTP handler is an action; handlers that other    *)
(* requests can overtake between their read and their commit (register,     *)
(* create, execute) are split at those points, one step per thread.         *)
(***************************************************************************)
EXTENDS Integers, Sequences, FiniteSets, TLC

(* ------------------------------ bounds --------------------------------- *)
MaxTime == 2
MaxTasks == 2
MaxPush == 1

(* --------------------------- input domains ----------------------------- *)
AgentIds == {"a1", "a2"}
Endpoints == {"e1"}
AgentStatuses == {"active", "inactive", "error"}
TaskUuids == {"t1", "t2"}
TaskTypes == {"generate_blog", "collect_news"}
Priorities == {1, 5}
TaskStatuses == {"pending", "running", "completed", "failed", "cancelled"}

(* ------------------------- column conventions -------------------------- *)
\* A DateTime column holds 0 for NULL and a clock reading (>= 1) otherwise.
NULL_TIME == 0
\* A Text column holding a string: the sentinel stands for SQL NULL.
NULL_STR == "NULL"
\* A Text column holding serialised JSON: <<>> is NULL, <<v>> the text that
\* json.dumps(v) writes.
NULL_JSON == <<>>
json_dumps(v) == <<v>>
\* json.loads of such a text
json_loads(s) == s[1]
\* datetime.isoformat of a clock reading
isoformat(t) == <<"iso", t>>

DefaultPriority == 5

VARIABLES
    agents,     \* table agent: set of rows
    tasks,      \* table task: sequence of rows, index = integer primary key
    now,        \* datetime.utcnow()
    threads,    \* request threads of the coordinator that are mid-handler
    pushed,     \* number of POSTs made to agents' /execute, per task_id
    resp,       \* the HTTP response produced by the last step, if any
    \* one agent process (mcp_agent_base.py)
    agent_class,        \* the class of the agent object
    is_running,         \* self.is_running
    heartbeat_thread,   \* where self.heartbeat_thread is in _heartbeat_loop
    heartbeat_log,      \* what the last send_heartbeat logged
    main,               \* where the agent's start() / stop() calls are
    handler             \* the /execute request the agent is serving

agentVars == <<agent_class, is_running, heartbeat_thread, heartbeat_log, main, handler>>
coordVars == <<agents, tasks, now, threads, pushed, resp>>
vars == <<agents, tasks, now, threads, pushed, resp,
          agent_class, is_running, heartbeat_thread, heartbeat_log, main, handler>>

(* ------------------------------ helpers -------------------------------- *)
Has(data, k) == k \in DOMAIN data
Get(data, k, dflt) == IF Has(data, k) THEN data[k] ELSE dflt

Opt(k, S) == {<<>>} \cup {k :> v : v \in S}

Idle == [op |-> "idle"]
NoResp == [op |-> "none", code |-> 0, body |-> NULL_STR, query |-> <<>>, rows |-> <<>>]
Response(op, code, body) == [NoResp EXCEPT !.op = op, !.code = code, !.body = body]

\* Flask serves each request on its own thread; the lowest idle one is taken.
FreeThread(t) ==
    /\ t \in DOMAIN threads
    /\ threads[t] = Idle
    /\ \A u \in 1..(t - 1) : threads[u] # Idle

TaskPks == 1..Len(tasks)

\* Agent.query.filter_by(id=...).first() / Agent.query.get(...)
AgentRows(id) == {a \in agents : a.id = id}
AgentExists(id) == AgentRows(id) # {}
AgentRow(id) == CHOOSE a \in agents : a.id = id

\* Task.query.filter_by(task_id=...).first()
TaskPkOf(task_id) == CHOOSE i \in TaskPks : tasks[i].task_id = task_id
TaskExists(task_id) == \E i \in TaskPks : tasks[i].task_id = task_id

(* ----------------------------- the clock ------------------------------- *)
Tick ==
    /\ now < MaxTime
    /\ now' = now + 1
    /\ resp' = NoResp
    /\ UNCHANGED <<agents, tasks, threads, pushed, agentVars>>

(* --------------------------- Agent Registry ---------------------------- *)
\* as NewAgent, with the status left to the column default (line 14)
NewAgentColumnDefaultStatus(data) ==
    [id |-> data["id"],
     name |-> data["name"],
     description |-> Get(data, "description", ""),
     endpoint |-> data["endpoint"],
     capabilities |-> IF Has(data, "capabilities")
                      THEN json_dumps(data["capabilities"]) ELSE NULL_JSON,
     status |-> "inactive",
     last_heartbeat |-> now,
     created_at |-> now,
     updated_at |-> now]

\* Agent(...) with the column defaults of models/user.py
NewAgent(data) ==
    [id |-> data["id"],
     name |-> data["name"],
     description |-> Get(data, "description", ""),
     endpoint |-> data["endpoint"],
     capabilities |-> IF Has(data, "capabilities")
                      THEN json_dumps(data["capabilities"]) ELSE NULL_JSON,
     status |-> "active",
     last_heartbeat |-> now,
     created_at |-> now,
     updated_at |-> now]

RegisterRequired == <<"id", "name", "endpoint">>

\* the first required field that the body lacks, 0 if none
FirstMissing(data, required) ==
    IF \E i \in 1..Len(required) : ~Has(data, required[i])
    THEN CHOOSE i \in 1..Len(required) :
            /\ ~Has(data, required[i])
            /\ \A j \in 1..(i - 1) : Has(data, required[j])
    ELSE 0

ExistingAgentByName(data) == \E a \in agents : a.name = data["name"]

\* register_agent, lines 32-34: Agent.query.filter_by(id=data['id']).first()
ExistingAgent(data) == AgentExists(data["id"])

\* register_agent, lines 24-35: validation and the existence check
register_agent(t, data) ==
    /\ FreeThread(t)
    /\ UNCHANGED <<agents, tasks, now, pushed, agentVars>>
    /\ IF FirstMissing(data, RegisterRequired) # 0
       THEN /\ resp' = Response("register_agent", 400, "Missing required field")
            /\ UNCHANGED threads
       ELSE IF ExistingAgent(data)
       THEN /\ resp' = Response("register_agent", 409, "Agent with this ID already exists")
            /\ UNCHANGED threads
       ELSE /\ threads' = [threads EXCEPT ![t] = [op |-> "register_agent", data |-> data]]
            /\ resp' = NoResp

AgentInsertUnchecked(row) == TRUE

\* the primary key of table agent (models/user.py line 9)
AgentInsertAllowed(row) == ~AgentExists(row.id)

\* register_agent, lines 37-58: INSERT and commit; a primary-key violation
\* raises IntegrityError, which the handler's except turns into a 500
register_agent_commit(t) ==
    /\ threads[t].op = "register_agent"
    /\ LET row == NewAgent(threads[t].data) IN
         IF AgentInsertAllowed(row)
         THEN /\ agents' = agents \cup {row}
              /\ resp' = Response("register_agent", 201, "created")
         ELSE /\ agents' = agents
              /\ resp' = Response("register_agent", 500, "Internal server error")
    /\ threads' = [threads EXCEPT ![t] = Idle]
    /\ UNCHANGED <<tasks, now, pushed, agentVars>>

\* Agent.query.get_or_404 inside try/except Exception: the NotFound raised
\* by abort(404) is an Exception, so the handler answers 500
GetOr404Code == 500

\* an update that replaces the row: a field the body leaves out goes back
\* to its default
UpdatedAgentReplacing(a, data) ==
    [a EXCEPT
        !.name = Get(data, "name", @),
        !.description = Get(data, "description", ""),
        !.endpoint = Get(data, "endpoint", @),
        !.capabilities = IF Has(data, "capabilities")
                         THEN json_dumps(data["capabilities"]) ELSE NULL_JSON,
        !.status = Get(data, "status", @),
        !.updated_at = now]

\* update_agent, lines 73-85: the fields the body carries, and updated_at
UpdatedAgent(a, data) ==
    [a EXCEPT
        !.name = Get(data, "name", @),
        !.description = Get(data, "description", @),
        !.endpoint = Get(data, "endpoint", @),
        !.capabilities = IF Has(data, "capabilities")
                         THEN json_dumps(data["capabilities"]) ELSE @,
        !.status = Get(data, "status", @),
        !.updated_at = now]

\* update_agent, lines 66-93
update_agent(agent_id, data) ==
    /\ UNCHANGED <<tasks, now, threads, pushed, agentVars>>
    /\ IF ~AgentExists(agent_id)
       THEN /\ resp' = Response("update_agent", GetOr404Code, "Internal server error")
            /\ UNCHANGED agents
       ELSE LET a == AgentRow(agent_id)
                b == UpdatedAgent(a, data)
            IN /\ agents' = (agents \ {a}) \cup {b}
               /\ resp' = Response("update_agent", 200, b.status)

\* a heartbeat that records the time and leaves the status alone
HeartbeatKeepsStatus(a) == [a EXCEPT !.last_heartbeat = now]

\* agent_heartbeat, lines 100-101
Heartbeat(a) == [a EXCEPT !.last_heartbeat = now, !.status = "active"]

\* Agent.updated_at (models/user.py line 17): the UPDATE that writes a
\* changed row b over a sets updated_at = utcnow
OnUpdate(a, b) == IF b = a THEN a ELSE [b EXCEPT !.updated_at = now]

\* agent_heartbeat, lines 95-108; updated_at has onupdate=datetime.utcnow,
\* so it is refreshed whenever the UPDATE changes the row
agent_heartbeat(agent_id) ==
    /\ UNCHANGED <<tasks, now, threads, pushed, agentVars>>
    /\ IF ~AgentExists(agent_id)
       THEN /\ resp' = Response("agent_heartbeat", GetOr404Code, "Internal server error")
            /\ UNCHANGED agents
       ELSE LET a == AgentRow(agent_id)
                c == OnUpdate(a, Heartbeat(a))
            IN /\ agents' = (agents \ {a}) \cup {c}
               /\ resp' = Response("agent_heartbeat", 200, "heartbeat_received")

\* Task.agent_id is nullable=False and Agent.tasks (the backref of
\* models/user.py line 60) has no delete cascade: deleting an agent makes the
\* flush set agent_id = NULL on each of its tasks, which the NOT NULL
\* constraint rejects
TasksOfAgent(agent_id) == {i \in TaskPks : tasks[i].agent_id = agent_id}
DeleteAgentAllowed(agent_id) == TasksOfAgent(agent_id) = {}

\* the rows the handler marks before the delete (lines 116-121)
CancelPending(agent_id) ==
    [i \in TaskPks |->
        IF tasks[i].agent_id = agent_id /\ tasks[i].status = "pending"
        THEN [tasks[i] EXCEPT !.status = "cancelled",
                              !.error_message = "Agent unregistered",
                              !.completed_at = now]
        ELSE tasks[i]]

\* as unregister_agent, with the cancellations kept when the delete fails
unregister_agent_KeepsCancellations(agent_id) ==
    /\ UNCHANGED <<now, threads, pushed, agentVars>>
    /\ IF ~AgentExists(agent_id)
       THEN /\ resp' = Response("unregister_agent", GetOr404Code, "Internal server error")
            /\ UNCHANGED <<agents, tasks>>
       ELSE IF DeleteAgentAllowed(agent_id)
       THEN /\ tasks' = CancelPending(agent_id)
            /\ agents' = agents \ AgentRows(agent_id)
            /\ resp' = Response("unregister_agent", 204, "")
       ELSE /\ resp' = Response("unregister_agent", 500, "Internal server error")
            /\ tasks' = CancelPending(agent_id)
            /\ UNCHANGED agents

\* unregister_agent, lines 110-131: the cancellations and the delete are one
\* transaction; when the flush raises, the whole transaction is rolled back
unregister_agent(agent_id) ==
    /\ UNCHANGED <<now, threads, pushed, agentVars>>
    /\ IF ~AgentExists(agent_id)
       THEN /\ resp' = Response("unregister_agent", GetOr404Code, "Internal server error")
            /\ UNCHANGED <<agents, tasks>>
       ELSE IF DeleteAgentAllowed(agent_id)
       THEN /\ tasks' = CancelPending(agent_id)
            /\ agents' = agents \ AgentRows(agent_id)
            /\ resp' = Response("unregister_agent", 204, "")
       ELSE /\ resp' = Response("unregister_agent", 500, "Internal server error")
            /\ UNCHANGED <<agents, tasks>>

(* ----------------------------- Task Ledger ----------------------------- *)
CreateRequired == <<"agent_id", "task_type">>

\* Task(...) of create_task with the column defaults of models/user.py
NewTask(data, uuid) ==
    [task_id |-> uuid,
     agent_id |-> data["agent_id"],
     task_type |-> data["task_type"],
     parameters |-> IF Has(data, "parameters")
                    THEN json_dumps(data["parameters"]) ELSE NULL_JSON,
     status |-> "pending",
     result |-> NULL_JSON,
     error_message |-> NULL_STR,
     priority |-> Get(data, "priority", DefaultPriority),
     created_at |-> now,
     started_at |-> NULL_TIME,
     completed_at |-> NULL_TIME]

\* create_task, lines 165-178: validation and the agent check
create_task(t, data) ==
    /\ FreeThread(t)
    /\ UNCHANGED <<agents, tasks, now, pushed, agentVars>>
    /\ IF FirstMissing(data, CreateRequired) # 0
       THEN /\ resp' = Response("create_task", 400, "Missing required field")
            /\ UNCHANGED threads
       ELSE IF ~AgentExists(data["agent_id"])
       THEN /\ resp' = Response("create_task", 404, "Agent not found")
            /\ UNCHANGED threads
       ELSE IF AgentRow(data["agent_id"]).status # "active"
       THEN /\ resp' = Response("create_task", 400, "Agent is not active")
            /\ UNCHANGED threads
       ELSE /\ threads' = [threads EXCEPT ![t] = [op |-> "create_task", data |-> data]]
            /\ resp' = NoResp

\* a table task with no constraint
TaskInsertUnchecked(row, fk_enforced) == TRUE

\* the constraints of table task: task_id is unique (models/user.py line
\* 47); agent_id is a foreign key (line 48), which the database enforces or
\* not depending on the engine and its settings
TaskInsertAllowed(row, fk_enforced) ==
    /\ ~TaskExists(row.task_id)
    /\ fk_enforced => AgentExists(row.agent_id)

\* create_task, lines 180-201: uuid4, INSERT and commit
create_task_commit(t, uuid, fk_enforced) ==
    /\ threads[t].op = "create_task"
    /\ LET row == NewTask(threads[t].data, uuid) IN
         IF TaskInsertAllowed(row, fk_enforced)
         THEN /\ Len(tasks) < MaxTasks
              /\ tasks' = Append(tasks, row)
              /\ resp' = Response("create_task", 201, "pending")
         ELSE /\ tasks' = tasks
              /\ resp' = Response("create_task", 500, "Internal server error")
    /\ threads' = [threads EXCEPT ![t] = Idle]
    /\ UNCHANGED <<agents, now, pushed, agentVars>>

\* Task.to_dict as GET /tasks/<task_id> returns it: a NULL result reads as
\* None and a NULL timestamp as None
to_dict(row) ==
    [task_id |-> row.task_id,
     status |-> row.status,
     result |-> IF row.result # NULL_JSON THEN json_loads(row.result) ELSE "None",
     error_message |-> row.error_message,
     started_at |-> IF row.started_at # NULL_TIME THEN isoformat(row.started_at) ELSE <<>>,
     completed_at |-> IF row.completed_at # NULL_TIME THEN isoformat(row.completed_at) ELSE <<>>]

\* as ApplyStatus, with no completion stamp
ApplyStatusNoCompletedAt(row, data) ==
    IF ~Has(data, "status") THEN row
    ELSE LET old_status == row.status
             r == [row EXCEPT !.status = data["status"]]
         IN IF data["status"] = "running" /\ old_status = "pending"
            THEN [r EXCEPT !.started_at = now]
            ELSE r

\* as ApplyStatus, stamping started_at on every update to running
ApplyStatusStartsOnEveryRunning(row, data) ==
    IF ~Has(data, "status") THEN row
    ELSE LET r == [row EXCEPT !.status = data["status"]]
         IN IF data["status"] = "running"
            THEN [r EXCEPT !.started_at = now]
            ELSE IF data["status"] \in {"completed", "failed", "cancelled"}
            THEN [r EXCEPT !.completed_at = now]
            ELSE r

\* update_task_status, lines 216-225: the status and its timestamps
ApplyStatus(row, data) ==
    IF ~Has(data, "status") THEN row
    ELSE LET old_status == row.status
             r == [row EXCEPT !.status = data["status"]]
         IN IF data["status"] = "running" /\ old_status = "pending"
            THEN [r EXCEPT !.started_at = now]
            ELSE IF data["status"] \in {"completed", "failed", "cancelled"}
            THEN [r EXCEPT !.completed_at = now]
            ELSE r

\* a result the body leaves out is cleared
ApplyResultReplacing(row, data) ==
    [row EXCEPT !.result = IF Has(data, "result")
                           THEN json_dumps(data["result"]) ELSE NULL_JSON]

\* update_task_status, lines 227-228
ApplyResult(row, data) ==
    IF Has(data, "result")
    THEN [row EXCEPT !.result = json_dumps(data["result"])] ELSE row

\* update_task_status, lines 230-231
ApplyErrorMessage(row, data) ==
    IF Has(data, "error_message")
    THEN [row EXCEPT !.error_message = data["error_message"]] ELSE row

\* update_task_status, lines 209-242
update_task_status_step(task_id, data) ==
    /\ UNCHANGED <<agents, now, threads, pushed>>
    /\ IF ~TaskExists(task_id)
       THEN /\ resp' = Response("update_task_status", GetOr404Code, "Internal server error")
            /\ UNCHANGED tasks
       ELSE LET pk == TaskPkOf(task_id)
                r3 == ApplyErrorMessage(ApplyResult(ApplyStatus(tasks[pk], data), data), data)
            IN /\ tasks' = [tasks EXCEPT ![pk] = r3]
               /\ resp' = Response("update_task_status", 200, r3.status)

\* the request comes from a caller that is not looked at here
update_task_status(task_id, data) == update_task_status_step(task_id, data) /\ UNCHANGED agentVars

\* the filters of get_tasks, lines 138-150: a query parameter that is absent
\* or empty is falsy and adds no filter
Matches(row, query) ==
    /\ Has(query, "agent_id") => row.agent_id = query["agent_id"]
    /\ Has(query, "status") => row.status = query["status"]
    /\ Has(query, "task_type") => row.task_type = query["task_type"]

OrderKeyLeqNewestFirst(r1, r2) ==
    \/ r1.priority < r2.priority
    \/ r1.priority = r2.priority /\ r1.created_at >= r2.created_at

\* ORDER BY priority ASC, created_at ASC (line 153)
OrderKeyLeq(r1, r2) ==
    \/ r1.priority < r2.priority
    \/ r1.priority = r2.priority /\ r1.created_at <= r2.created_at

Orderings(S) ==
    {s \in [1..Cardinality(S) -> S] : \A i, j \in 1..Cardinality(S) : i # j => s[i] # s[j]}

\* the row orders the query may return: SQL leaves the relative order of
\* rows with equal sort keys to the engine
QueryResults(query) ==
    LET M == {i \in TaskPks : Matches(tasks[i], query)} IN
    {s \in Orderings(M) :
        \A i, j \in 1..Cardinality(M) : i < j => OrderKeyLeq(tasks[s[i]], tasks[s[j]])}

\* the response lists the rows' task_id (to_dict, line 155)
Listing(s) == [i \in 1..Len(s) |-> tasks[s[i]].task_id]

\* get_tasks, lines 133-159
get_tasks(query, s) ==
    /\ s \in QueryResults(query)
    /\ resp' = [Response("get_tasks", 200, NULL_STR) EXCEPT
                    !.query = query, !.rows = Listing(s)]
    /\ UNCHANGED <<agents, tasks, now, threads, pushed, agentVars>>

(* ------------------------------ Dispatcher ----------------------------- *)
TaskDispatchableUnlessRunning(row) == row.status # "running"

\* execute_task, line 250
TaskDispatchable(row) == row.status = "pending"

AgentAvailableIfRegistered(agent_id) == AgentExists(agent_id)

\* execute_task, lines 253-254
AgentAvailable(agent_id) ==
    /\ AgentExists(agent_id)
    /\ AgentRow(agent_id).status = "active"

DispatchRunningAndCompleted(row) ==
    [row EXCEPT !.status = "completed", !.started_at = now, !.completed_at = now]

\* the running write put off until the agent has answered
DispatchRunningDeferred(row) == row

\* execute_task, lines 257-259
DispatchRunning(row) == [row EXCEPT !.status = "running", !.started_at = now]

\* execute_task, lines 248-255: load the task and its agent
execute_task(t, task_id) ==
    /\ FreeThread(t)
    /\ UNCHANGED <<agents, tasks, now, pushed, agentVars>>
    /\ IF ~TaskExists(task_id)
       THEN /\ resp' = Response("execute_task", GetOr404Code, "Internal server error")
            /\ UNCHANGED threads
       ELSE LET pk == TaskPkOf(task_id) IN
            IF ~TaskDispatchable(tasks[pk])
            THEN /\ resp' = Response("execute_task", 400, "Task is not in pending status")
                 /\ UNCHANGED threads
            ELSE IF ~AgentAvailable(tasks[pk].agent_id)
            THEN /\ resp' = Response("execute_task", 400, "Agent not available")
                 /\ UNCHANGED threads
            ELSE /\ pushed[task_id] < MaxPush
                 /\ threads' = [threads EXCEPT ![t] =
                        [op |-> "execute_task", pc |-> "loaded", pk |-> pk]]
                 /\ resp' = NoResp

\* execute_task, lines 257-275: commit `running`, then POST to the agent
execute_task_commit(t) ==
    /\ threads[t].op = "execute_task"
    /\ threads[t].pc = "loaded"
    /\ LET pk == threads[t].pk IN
        /\ tasks' = [tasks EXCEPT ![pk] = DispatchRunning(@)]
        /\ pushed' = [pushed EXCEPT ![tasks[pk].task_id] = @ + 1]
    /\ threads' = [threads EXCEPT ![t].pc = "calling"]
    /\ resp' = NoResp
    /\ UNCHANGED <<agents, now, agentVars>>

\* what requests.post can bring back: a 200, another status code, or a
\* RequestException (connection error, or no answer within the timeout)
CallOutcomes == {"200", "non200", "RequestException"}

DispatchFailedStaysRunning(row, outcome) ==
    [row EXCEPT !.error_message = "Failed to communicate with agent"]

\* as DispatchFailed, with no completion stamp
DispatchFailedNoCompletedAt(row, outcome) ==
    [row EXCEPT !.status = "failed",
                !.error_message = IF outcome = "non200"
                                  THEN "Agent returned status"
                                  ELSE "Failed to communicate with agent"]

\* as DispatchFailed, but yielding to a completion already recorded
DispatchFailedUnlessCompleted(row, outcome) ==
    IF row.status = "completed" THEN row
    ELSE [row EXCEPT !.status = "failed",
                     !.error_message = IF outcome = "non200"
                                       THEN "Agent returned status"
                                       ELSE "Failed to communicate with agent",
                     !.completed_at = now]

\* execute_task, lines 280-284 and 288-292
DispatchFailed(row, outcome) ==
    [row EXCEPT !.status = "failed",
                !.error_message = IF outcome = "non200"
                                  THEN "Agent returned status"
                                  ELSE "Failed to communicate with agent",
                !.completed_at = now]

\* as execute_task_response, with a failed call marking the agent error
execute_task_response_MarksAgent(t, outcome) ==
    /\ threads[t].op = "execute_task"
    /\ threads[t].pc = "calling"
    /\ LET pk == threads[t].pk
       IN IF outcome = "200"
          THEN /\ tasks' = tasks
               /\ agents' = agents
               /\ resp' = Response("execute_task", 200, "task_sent_to_agent")
          ELSE /\ tasks' = [tasks EXCEPT ![pk] = DispatchFailed(@, outcome)]
               /\ agents' = {IF a.id = tasks[pk].agent_id
                             THEN [a EXCEPT !.status = "error"] ELSE a : a \in agents}
               /\ resp' = Response("execute_task", 500, "Failed to communicate with agent")
    /\ threads' = [threads EXCEPT ![t] = Idle]
    /\ UNCHANGED <<now, pushed, agentVars>>

\* execute_task, lines 277-294: the outcome of the POST
execute_task_response_step(t, outcome) ==
    /\ threads[t].op = "execute_task"
    /\ threads[t].pc = "calling"
    /\ LET pk == threads[t].pk
           task_id == tasks[pk].task_id
       IN IF outcome = "200"
          THEN /\ tasks' = tasks
               /\ resp' = Response("execute_task", 200, "task_sent_to_agent")
          ELSE /\ tasks' = [tasks EXCEPT ![pk] = DispatchFailed(@, outcome)]
               /\ resp' = Response("execute_task", 500, IF outcome = "non200" THEN "Agent execution failed" ELSE "Failed to communicate with agent")
    /\ threads' = [threads EXCEPT ![t] = Idle]
    /\ UNCHANGED <<agents, now, pushed>>

\* the answer comes from an agent that is not looked at here
execute_task_response(t, outcome) == execute_task_response_step(t, outcome) /\ UNCHANGED agentVars

(* ---------------------------- system status ---------------------------- *)
\* Agent.query.filter_by(status=...).count(), Task.query.filter_by(...).count()
CountAgents(status) == Cardinality({a \in agents : a.status = status})
CountTasks(status) == Cardinality({i \in TaskPks : tasks[i].status = status})

\* the status dict of get_system_status, lines 315-330 (without its timestamp)
SystemStatus ==
    [agents |-> [active |-> CountAgents("active"),
                 inactive |-> CountAgents("inactive"),
                 error |-> CountAgents("error"),
                 total |-> CountAgents("active") + CountAgents("inactive") + CountAgents("error")],
     tasks |-> [pending |-> CountTasks("pending"),
                running |-> CountTasks("running"),
                completed |-> CountTasks("completed"),
                failed |-> CountTasks("failed"),
                total |-> CountTasks("pending") + CountTasks("running")
                          + CountTasks("completed") + CountTasks("failed")]]

\* get_system_status, lines 300-336
get_system_status ==
    /\ resp' = [Response("get_system_status", 200, NULL_STR) EXCEPT !.rows = <<SystemStatus>>]
    /\ UNCHANGED <<agents, tasks, now, threads, pushed, agentVars>>

(* ------------------- an agent process (MCPAgent) ----------------------- *)
\* MCPAgent stands for a subclass whose executor lets its exceptions out,
\* as the abstract execute_task of the base class allows
AgentClasses == {"MCPAgent", "BlogCreationAgent", "NewsMarketAgent"}

\* get_supported_task_types of each class
get_supported_task_types(class) ==
    IF class = "NewsMarketAgent"
    THEN {"collect_news", "collect_stocks", "collect_crypto", "get_latest_data",
          "get_trading_insights", "get_bitcoin_analysis", "collect_all"}
    ELSE {"generate_blog", "publish_blog", "get_blog_posts", "generate_daily_content"}

\* what the executor's own work can do
WorkOutcomes == {"ok", "fails"}

\* execute_task of each class: the concrete executors wrap their whole body
\* in try/except Exception and return a dict with status "error"
execute_task_outcome(class, work) ==
    IF work = "ok" THEN "returned_result"
    ELSE IF class = "MCPAgent" THEN "raised"
    ELSE "returned_error"

\* MCPAgent.update_task_status, lines 125-149: one PUT, whose failure is
\* logged and goes no further
Report(status, payload, outcome) ==
    [status |-> status, payload |-> payload,
     logged |-> IF outcome = "200" THEN "info" ELSE "error"]

NoRequest ==
    [pc |-> "idle", task_type |-> NULL_STR, reports |-> <<>>, calls |-> 0,
     outcome |-> NULL_STR, returned |-> NULL_STR]

HeartbeatAlive == heartbeat_thread \in {"test", "send", "post", "sleep"}

AgentInit(class) ==
    /\ agent_class = class
    /\ is_running = FALSE
    /\ heartbeat_thread = "none"
    /\ heartbeat_log = "none"
    /\ main = "created"
    /\ handler = NoRequest

\* a start that begins the heartbeat whatever register_with_mcp returned
start_HeartbeatRegardless(outcome) ==
    /\ main \in {"created", "stopped"}
    /\ main' = IF outcome = "201" THEN "serving" ELSE "created"
    /\ IF ~HeartbeatAlive
       THEN is_running' = TRUE /\ heartbeat_thread' = "test"
       ELSE UNCHANGED <<is_running, heartbeat_thread>>
    /\ UNCHANGED <<coordVars, agent_class, heartbeat_log, handler>>

\* start, lines 222-230, with register_with_mcp (True only on 201) and
\* start_heartbeat, lines 94-100
start(outcome) ==
    /\ main \in {"created", "stopped"}
    /\ IF outcome = "201"
       THEN /\ main' = "serving"
            /\ IF ~HeartbeatAlive
               THEN is_running' = TRUE /\ heartbeat_thread' = "test"
               ELSE UNCHANGED <<is_running, heartbeat_thread>>
       ELSE /\ main' = "created"
            /\ UNCHANGED <<is_running, heartbeat_thread>>
    /\ UNCHANGED <<coordVars, agent_class, heartbeat_log, handler>>

\* stop -> stop_heartbeat, lines 102-105: clear the flag and start the join
stop_heartbeat ==
    /\ main = "serving"
    /\ is_running' = FALSE
    /\ main' = "joining"
    /\ UNCHANGED <<coordVars, agent_class, heartbeat_log, heartbeat_thread, handler>>

\* join(timeout=5) returns, because the thread ended or because 5 seconds
\* passed, and stop goes on to unregister_from_mcp (lines 105-123, 235)
unregister_from_mcp ==
    /\ main = "joining"
    /\ main' = "stopped"
    /\ UNCHANGED <<coordVars, agent_class, heartbeat_log, is_running, heartbeat_thread, handler>>

\* _heartbeat_loop, line 90: the loop condition
heartbeat_loop_test ==
    /\ heartbeat_thread = "test"
    /\ heartbeat_thread' = IF is_running THEN "send" ELSE "exited"
    /\ UNCHANGED <<coordVars, agent_class, heartbeat_log, is_running, main, handler>>

\* send_heartbeat, lines 76-80: the POST goes out
heartbeat_post ==
    /\ heartbeat_thread = "send"
    /\ heartbeat_thread' = "post"
    /\ UNCHANGED <<coordVars, agent_class, heartbeat_log, is_running, main, handler>>

\* a loop that gives up after a heartbeat that failed
send_heartbeat_StopsOnFailure(outcome) ==
    /\ heartbeat_thread = "post"
    /\ heartbeat_thread' = "sleep"
    /\ heartbeat_log' = IF outcome = "200" THEN "ok" ELSE "warning"
    /\ is_running' = (is_running /\ outcome = "200")
    /\ UNCHANGED <<coordVars, agent_class, main, handler>>

\* send_heartbeat, lines 82-86, and line 92: whatever the answer, a warning
\* at most is logged and the loop goes to sleep for 30 seconds
send_heartbeat(outcome) ==
    /\ heartbeat_thread = "post"
    /\ heartbeat_thread' = "sleep"
    /\ heartbeat_log' = IF outcome = "200" THEN "ok" ELSE "warning"
    /\ UNCHANGED <<coordVars, agent_class, is_running, main, handler>>

\* time.sleep(30) is over (line 92)
heartbeat_wake ==
    /\ heartbeat_thread = "sleep"
    /\ heartbeat_thread' = "test"
    /\ UNCHANGED <<coordVars, agent_class, heartbeat_log, is_running, main, handler>>

\* execute_endpoint, lines 256-260: a POST /execute arrives with a task_id
\* and a task_type, which may be the empty string
execute_endpoint(task_type) ==
    /\ handler.pc = "idle"
    /\ handler' = [NoRequest EXCEPT !.pc = "received", !.task_type = task_type]
    /\ UNCHANGED <<coordVars, agent_class, heartbeat_log, is_running, heartbeat_thread, main>>

\* handle_task_request, lines 190-191: `not task_type` holds for a request
\* whose task_type is missing or empty; nothing is reported upstream
handle_missing ==
    /\ handler.pc = "received"
    /\ handler.task_type = ""
    /\ handler' = [handler EXCEPT !.returned = "error", !.pc = "returning"]
    /\ UNCHANGED <<coordVars, agent_class, heartbeat_log, is_running, heartbeat_thread, main>>

\* an agent that goes on with a type it does not declare
handle_unsupported_RunsAnyway(outcome) ==
    /\ handler.pc = "received"
    /\ handler.task_type # ""
    /\ handler.task_type \notin get_supported_task_types(agent_class)
    /\ handler' = [handler EXCEPT
            !.reports = Append(@, Report("running", "none", outcome)),
            !.pc = "running_reported"]
    /\ UNCHANGED <<coordVars, agent_class, heartbeat_log, is_running, heartbeat_thread, main>>

\* handle_task_request, lines 192-198: a type the agent does not declare
handle_unsupported_step(outcome) ==
    /\ handler.pc = "received"
    /\ handler.task_type # ""
    /\ handler.task_type \notin get_supported_task_types(agent_class)
    /\ handler' = [handler EXCEPT
            !.reports = Append(@, Report("failed", "error_message", outcome)),
            !.returned = "error",
            !.pc = "returning"]
    /\ UNCHANGED <<agent_class, heartbeat_log, is_running, heartbeat_thread, main>>

\* the report is made to a coordinator that is not looked at here
handle_unsupported(outcome) == handle_unsupported_step(outcome) /\ UNCHANGED coordVars

\* handle_task_request, lines 200-201: report running
handle_running_step(outcome) ==
    /\ handler.pc = "received"
    /\ handler.task_type \in get_supported_task_types(agent_class)
    /\ handler' = [handler EXCEPT
            !.reports = Append(@, Report("running", "none", outcome)),
            !.pc = "running_reported"]
    /\ UNCHANGED <<agent_class, heartbeat_log, is_running, heartbeat_thread, main>>

\* the report is made to a coordinator that is not looked at here
handle_running(outcome) == handle_running_step(outcome) /\ UNCHANGED coordVars

\* handle_task_request, lines 203-205: the executor runs to its end
handle_execute(work) ==
    /\ handler.pc = "running_reported"
    /\ handler' = [handler EXCEPT
            !.calls = @ + 1,
            !.outcome = execute_task_outcome(agent_class, work),
            !.pc = "executed"]
    /\ UNCHANGED <<coordVars, agent_class, heartbeat_log, is_running, heartbeat_thread, main>>

\* a second report of running in place of the outcome
TerminalReportStillRunning(exec_outcome, outcome) ==
    Report("running", "none", outcome)

\* a report of completed whatever the executor did
TerminalReportAlwaysCompleted(exec_outcome, outcome) ==
    Report("completed", "result", outcome)

\* handle_task_request, lines 207-216: the report that follows the executor
TerminalReport(exec_outcome, outcome) ==
    IF exec_outcome = "raised"
    THEN Report("failed", "error_message", outcome)
    ELSE Report("completed", "result", outcome)

\* handle_task_request, lines 207-216
handle_terminal_step(outcome) ==
    /\ handler.pc = "executed"
    /\ handler' = [handler EXCEPT
            !.reports = Append(@, TerminalReport(handler.outcome, outcome)),
            !.returned = IF handler.outcome = "raised" THEN "error" ELSE "completed",
            !.pc = "returning"]
    /\ UNCHANGED <<agent_class, heartbeat_log, is_running, heartbeat_thread, main>>

\* the report is made to a coordinator that is not looked at here
handle_terminal(outcome) == handle_terminal_step(outcome) /\ UNCHANGED coordVars

\* execute_endpoint, line 261: jsonify(result) answers the POST
execute_endpoint_return_step ==
    /\ handler.pc = "returning"
    /\ handler' = [handler EXCEPT !.pc = "idle"]
    /\ UNCHANGED <<agent_class, heartbeat_log, is_running, heartbeat_thread, main>>

\* the answer goes to a coordinator that is not looked at here
execute_endpoint_return == execute_endpoint_return_step /\ UNCHANGED coordVars

(* --------------------------- request bodies ---------------------------- *)
\* registration bodies as MCPAgent.register_with_mcp sends them, and the
\* same with a required field left out
LedgerAgentIds == {"a1"}

RegisterBodies ==
    {a @@ b @@ c : a \in Opt("id", LedgerAgentIds), b \in Opt("name", {"n1"}),
                   c \in Opt("endpoint", Endpoints)}

UpdateAgentBodies == Opt("status", {"inactive"})

CreateBodies ==
    {a @@ b : a \in Opt("agent_id", LedgerAgentIds), b \in {"task_type" :> "generate_blog"}}

\* the status reports of MCPAgent.update_task_status, and a client's
\* cancel / re-queue
StatusBodies ==
    {"status" :> "running", "status" :> "cancelled",
     ("status" :> "completed") @@ ("result" :> "r1"),
     ("status" :> "failed") @@ ("error_message" :> "boom")}

(* --------------------------- specification ----------------------------- *)
InitWith(T) ==
    /\ agents = {}
    /\ tasks = <<>>
    /\ now = 1
    /\ threads = [t \in T |-> Idle]
    /\ pushed = [u \in TaskUuids |-> 0]
    /\ resp = NoResp
    /\ AgentInit("BlogCreationAgent")

\* Registry, ledger and dispatcher together: one request is mid-handler at
\* a time while the single-step handlers run in between, and all clock
\* readings of a behaviour fall on the same instant.
Init == InitWith({1})

Next ==
    \/ \E t \in DOMAIN threads, data \in RegisterBodies : register_agent(t, data)
    \/ \E t \in DOMAIN threads : register_agent_commit(t)
    \/ \E id \in LedgerAgentIds, data \in UpdateAgentBodies : update_agent(id, data)
    \/ \E id \in LedgerAgentIds : agent_heartbeat(id)
    \/ \E id \in LedgerAgentIds : unregister_agent(id)
    \/ \E t \in DOMAIN threads, data \in CreateBodies : create_task(t, data)
    \/ \E t \in DOMAIN threads, u \in TaskUuids, fk \in BOOLEAN : create_task_commit(t, u, fk)
    \/ \E u \in TaskUuids, data \in StatusBodies : update_task_status(u, data)
    \/ \E t \in DOMAIN threads, u \in TaskUuids : execute_task(t, u)
    \/ \E t \in DOMAIN threads : execute_task_commit(t)
    \/ \E t \in DOMAIN threads, o \in CallOutcomes : execute_task_response(t, o)

Spec == Init /\ [][Next]_vars

(* ------------- the registry alone, with concurrent requests ------------ *)
\* complete registrations, with and without the optional fields, and
\* registrations that lack one required field
RegistryRegisterBodies ==
    {("id" :> i) @@ ("endpoint" :> "e1") @@ d :
        i \in AgentIds,
        d \in {"name" :> "n1",
               ("name" :> "n2") @@ ("description" :> "d1") @@ ("capabilities" :> <<"blog">>)}}
    \cup {("name" :> "n1") @@ ("endpoint" :> "e1"),
          ("id" :> "a1") @@ ("endpoint" :> "e1"),
          ("id" :> "a1") @@ ("name" :> "n1")}

RegistryUpdateBodies ==
    {a @@ b : a \in Opt("name", {"n2"}), b \in Opt("status", AgentStatuses)}

\* two requests may be mid-handler at once, and the clock advances
InitRegistry == InitWith({1, 2})

NextRegistry ==
    \/ Tick
    \/ \E t \in DOMAIN threads, data \in RegistryRegisterBodies : register_agent(t, data)
    \/ \E t \in DOMAIN threads : register_agent_commit(t)
    \/ \E id \in AgentIds, data \in RegistryUpdateBodies : update_agent(id, data)
    \/ \E id \in AgentIds : agent_heartbeat(id)
    \/ \E id \in AgentIds : unregister_agent(id)

SpecRegistry == InitRegistry /\ [][NextRegistry]_vars

(* ------------------- the ledger's listing, with a clock ---------------- *)
ListCreateBodies ==
    {a @@ b @@ c :
        a \in {"agent_id" :> "a1"}, b \in {"task_type" :> ty : ty \in TaskTypes},
        c \in Opt("priority", Priorities)}

ListStatusBodies == {"status" :> "running"}

Queries ==
    {a @@ b @@ c :
        a \in Opt("agent_id", {"a1"}), b \in Opt("status", {"pending", "running"}),
        c \in Opt("task_type", TaskTypes)}

NextList ==
    \/ Tick
    \/ \E t \in DOMAIN threads, data \in RegisterBodies : register_agent(t, data)
    \/ \E t \in DOMAIN threads : register_agent_commit(t)
    \/ \E t \in DOMAIN threads, data \in ListCreateBodies : create_task(t, data)
    \/ \E t \in DOMAIN threads, u \in TaskUuids, fk \in BOOLEAN : create_task_commit(t, u, fk)
    \/ \E u \in TaskUuids, data \in ListStatusBodies : update_task_status(u, data)
    \/ \E q \in Queries : \E s \in QueryResults(q) : get_tasks(q, s)

SpecList == Init /\ [][NextList]_vars

(* ------------------------------- claims -------------------------------- *)
PendingOf(id) == {i \in TaskPks : tasks[i].agent_id = id /\ tasks[i].status = "pending"}
RunningOf(id) == {i \in TaskPks : tasks[i].agent_id = id /\ tasks[i].status = "running"}

\* C1: unregister(id) of a registered agent answers 204, deletes the agent
\* and moves exactly its pending tasks to cancelled, each with error message
\* "Agent unregistered" and completed-at set, whatever tasks the agent has.
C1_UnregisterCancelsPending ==
    [][\A id \in LedgerAgentIds :
        (unregister_agent(id) /\ AgentExists(id)) =>
            /\ resp'.code = 204
            /\ ~AgentExists(id)'
            /\ \A i \in TaskPks :
                IF i \in PendingOf(id)
                THEN /\ tasks'[i].status = "cancelled"
                     /\ tasks'[i].error_message = "Agent unregistered"
                     /\ tasks'[i].completed_at = now
                ELSE tasks'[i].status = tasks[i].status]_vars

\* C2: unregister(id) of a registered agent that has a running task leaves
\* every task that is not a pending task of that agent unchanged in every
\* field, and deletes the agent, so that the running task then refers to an
\* agent id that is no longer registered.
C2_UnregisterLeavesRunningDangling ==
    [][\A id \in LedgerAgentIds :
        (unregister_agent(id) /\ AgentExists(id) /\ RunningOf(id) # {}) =>
            /\ \A i \in TaskPks \ PendingOf(id) : tasks'[i] = tasks[i]
            /\ \A i \in RunningOf(id) : ~AgentExists(tasks[i].agent_id)']_vars

\* C3: the dispatch of a task that was loaded pending with an active agent
\* writes status running and started-at = now and leaves completed-at (and
\* result) as they were; when the agent answers 200 the dispatcher reports
\* success and writes nothing, and no dispatcher step writes `completed`.
C3_DispatchAcceptedRunning ==
    [][\A t \in DOMAIN threads :
        /\ execute_task_commit(t) =>
            LET pk == threads[t].pk IN
            /\ tasks'[pk].status = "running"
            /\ tasks'[pk].started_at = now
            /\ tasks'[pk].started_at # NULL_TIME
            /\ tasks'[pk].completed_at = tasks[pk].completed_at
            /\ tasks'[pk].result = tasks[pk].result
            /\ \A i \in TaskPks \ {pk} : tasks'[i] = tasks[i]
        /\ execute_task_response(t, "200") =>
            /\ tasks' = tasks
            /\ resp'.code = 200
            /\ resp'.body = "task_sent_to_agent"
        /\ \A o \in CallOutcomes : execute_task_response(t, o) =>
            \A i \in TaskPks :
                tasks'[i].status = "completed" => tasks[i].status = "completed"]_vars

\* a dispatch was just accepted, and every task pushed to the agent is
\* running with started-at set and completed-at unset
C3_Witness ==
    /\ resp.op = "execute_task"
    /\ resp.code = 200
    /\ \E i \in TaskPks : pushed[tasks[i].task_id] > 0
    /\ \A i \in TaskPks : pushed[tasks[i].task_id] > 0 =>
        /\ tasks[i].status = "running"
        /\ tasks[i].started_at # NULL_TIME
        /\ tasks[i].completed_at = NULL_TIME

\* C4: when the POST to the agent raises a transport error (or times out) or
\* the agent answers with a status code other than 200, the dispatcher writes
\* status failed, a diagnostic error message and completed-at = now to the
\* task, does not write its result, and answers the caller with an error.
C4_DispatchFailureFails ==
    [][\A t \in DOMAIN threads : \A o \in CallOutcomes \ {"200"} :
        execute_task_response(t, o) =>
            LET pk == threads[t].pk IN
            /\ tasks'[pk].status = "failed"
            /\ tasks'[pk].error_message =
                (IF o = "non200" THEN "Agent returned status"
                                 ELSE "Failed to communicate with agent")
            /\ tasks'[pk].completed_at = now
            /\ tasks'[pk].completed_at # NULL_TIME
            /\ tasks'[pk].result = tasks[pk].result
            /\ tasks'[pk].started_at = tasks[pk].started_at
            /\ \A i \in TaskPks \ {pk} : tasks'[i] = tasks[i]
            /\ resp'.code = 500
            /\ resp'.body # "task_sent_to_agent"]_vars

\* a dispatch just ended in a transport failure; the task is failed with the
\* dispatcher's message, completed-at set and no result
C4_Witness ==
    /\ resp.op = "execute_task"
    /\ resp.code = 500
    /\ resp.body = "Failed to communicate with agent"
    /\ \E i \in TaskPks :
        /\ tasks[i].status = "failed"
        /\ tasks[i].error_message = "Failed to communicate with agent"
        /\ tasks[i].completed_at # NULL_TIME
        /\ tasks[i].result = NULL_JSON

\* C5: a dispatch that finds its pending task's agent absent or not active
\* answers 400 "Agent not available" (PreconditionFailed), changes no task,
\* ends there, and makes no POST to any agent.
C5_DispatchAgentUnavailable ==
    [][\A t \in DOMAIN threads, u \in TaskUuids :
        (/\ execute_task(t, u)
         /\ TaskExists(u)
         /\ tasks[TaskPkOf(u)].status = "pending"
         /\ \/ ~AgentExists(tasks[TaskPkOf(u)].agent_id)
            \/ AgentRow(tasks[TaskPkOf(u)].agent_id).status # "active") =>
            /\ resp'.code = 400
            /\ resp'.body = "Agent not available"
            /\ tasks' = tasks
            /\ tasks'[TaskPkOf(u)].status = "pending"
            /\ threads' = threads
            /\ pushed' = pushed]_vars

\* a dispatch was just refused because the agent of a pending task is
\* registered but not active
C5_Witness ==
    /\ resp.op = "execute_task"
    /\ resp.code = 400
    /\ resp.body = "Agent not available"
    /\ \E i \in TaskPks :
        /\ tasks[i].status = "pending"
        /\ AgentExists(tasks[i].agent_id)
        /\ AgentRow(tasks[i].agent_id).status = "inactive"
        /\ pushed[tasks[i].task_id] = 0

\* the same refusal, for a pending task whose agent is not registered
C5_WitnessAbsent ==
    /\ resp.op = "execute_task"
    /\ resp.body = "Agent not available"
    /\ tasks # <<>>
    /\ \A i \in TaskPks : tasks[i].status = "pending" /\ ~AgentExists(tasks[i].agent_id)

\* C6: a dispatch of a task whose status is running, completed, failed or
\* cancelled answers 400 "Task is not in pending status" (PreconditionFailed),
\* changes no task, ends there, and makes no POST to the agent; so a
\* cancelled task is never pushed by a later dispatch.
C6_DispatchNotPending ==
    [][\A t \in DOMAIN threads, u \in TaskUuids :
        (/\ execute_task(t, u)
         /\ TaskExists(u)
         /\ tasks[TaskPkOf(u)].status \in TaskStatuses \ {"pending"}) =>
            /\ resp'.code = 400
            /\ resp'.body = "Task is not in pending status"
            /\ tasks' = tasks
            /\ threads' = threads
            /\ pushed' = pushed]_vars

\* a dispatch was just refused while every task is cancelled and was never
\* pushed
C6_Witness ==
    /\ resp.op = "execute_task"
    /\ resp.code = 400
    /\ resp.body = "Task is not in pending status"
    /\ tasks # <<>>
    /\ \A i \in TaskPks : tasks[i].status = "cancelled" /\ pushed[tasks[i].task_id] = 0

\* C10: heartbeat(id) for an id that is not registered answers 404
\* (NotFound), creates no agent and changes no agent and no task.
C10_HeartbeatUnknownNotFound ==
    [][\A id \in LedgerAgentIds :
        (agent_heartbeat(id) /\ ~AgentExists(id)) =>
            /\ resp'.code = 404
            /\ agents' = agents
            /\ tasks' = tasks]_vars

\* the rows a query asks for, read off the query's keys
Wanted(q) == {i \in TaskPks : \A k \in DOMAIN q : tasks[i][k] = q[k]}
RowOf(task_id) == tasks[TaskPkOf(task_id)]
NoTies(S) ==
    \A i, j \in S :
        (i # j) => (tasks[i].priority # tasks[j].priority
                    \/ tasks[i].created_at # tasks[j].created_at)

\* what every listing satisfies: exactly the wanted rows, each once, in
\* ascending priority and, within a priority, ascending created-at
ListedInOrder(q, rows) ==
    /\ Len(rows) = Cardinality(Wanted(q))
    /\ {rows[k] : k \in 1..Len(rows)} = {tasks[i].task_id : i \in Wanted(q)}
    /\ \A k \in 1..(Len(rows) - 1) :
        \/ RowOf(rows[k]).priority < RowOf(rows[k + 1]).priority
        \/ /\ RowOf(rows[k]).priority = RowOf(rows[k + 1]).priority
           /\ RowOf(rows[k]).created_at <= RowOf(rows[k + 1]).created_at

\* C7 as stated: list(filter) returns exactly the tasks matching every
\* supplied filter, by priority ascending and then created-at ascending, and
\* that order is the only one the query can return for the tasks in the
\* ledger, however they were inserted.
C7_ListOrderFixed ==
    resp.op = "get_tasks" =>
        /\ ListedInOrder(resp.query, resp.rows)
        /\ \A s \in QueryResults(resp.query) : Listing(s) = resp.rows

\* C7, amended: list(filter) returns exactly the tasks matching every
\* supplied filter, by priority ascending and then created-at ascending; the
\* order is the only one possible whenever no two matching tasks have both
\* the same priority and the same created-at.
C7_ListOrderedUpToTies ==
    resp.op = "get_tasks" =>
        /\ ListedInOrder(resp.query, resp.rows)
        /\ NoTies(Wanted(resp.query)) =>
            \A s \in QueryResults(resp.query) : Listing(s) = resp.rows

\* a listing just returned two tasks with the later-inserted, more urgent
\* one first
C7_Witness ==
    /\ resp.op = "get_tasks"
    /\ Len(resp.rows) = 2
    /\ Len(tasks) = 2
    /\ resp.rows[1] = tasks[2].task_id
    /\ resp.rows[2] = tasks[1].task_id
    /\ tasks[2].priority < tasks[1].priority
    /\ tasks[1].created_at < tasks[2].created_at

\* C8: a register call that supplies id, name and endpoint and whose id is
\* already in the registry answers 409 (Conflict), ends there, and leaves
\* every agent row as it was.
C8_DuplicateRegisterConflict ==
    [][\A t \in DOMAIN threads, data \in RegistryRegisterBodies :
        (/\ FreeThread(t)
         /\ {"id", "name", "endpoint"} \subseteq DOMAIN data
         /\ \E a \in agents : a.id = data["id"]
         /\ register_agent(t, data)) =>
            /\ resp'.code = 409
            /\ agents' = agents
            /\ threads' = threads]_vars

\* a registration was just refused with 409 while the registry holds agents
C8_Witness ==
    /\ resp.op = "register_agent"
    /\ resp.code = 409
    /\ agents # {}

\* C9: in every reachable state the registry holds at most one agent row
\* per id.
C9_OneAgentPerId ==
    \A id \in AgentIds : Cardinality({a \in agents : a.id = id}) <= 1

\* two registrations of one id ran concurrently: the second commit was just
\* rejected and the registry holds the first one's row
C9_Witness ==
    /\ resp.op = "register_agent"
    /\ resp.code = 500
    /\ agents # {}

(* ------------------- results, errors and timestamps -------------------- *)
Terminal(row) == row.status \in {"completed", "failed", "cancelled"}

\* C11: in every reachable state a task whose status is completed, failed
\* or cancelled has exactly one of its result and its error message
\* populated.
C11_TerminalExactlyOneOutcome ==
    \A pk \in TaskPks :
        Terminal(tasks[pk]) =>
            (tasks[pk].result # NULL_JSON) # (tasks[pk].error_message # NULL_STR)

(* --------------- status updates of any kind, with a clock -------------- *)
\* bodies of PUT /tasks/<task_id>/status: each of status, result and
\* error_message is optional and the status is not validated
StatusAnyBodies ==
    {a @@ b @@ c :
        a \in Opt("status", TaskStatuses \cup {"archived"}), b \in Opt("result", {"r1"}),
        c \in Opt("error_message", {"boom"})}

\* one task id: the ledger of this specification holds at most one task
StatusTaskUuids == {"t1"}

NextStatus ==
    \/ Tick
    \/ \E t \in DOMAIN threads, data \in RegisterBodies : register_agent(t, data)
    \/ \E t \in DOMAIN threads : register_agent_commit(t)
    \/ \E t \in DOMAIN threads, data \in CreateBodies : create_task(t, data)
    \/ \E t \in DOMAIN threads, u \in StatusTaskUuids, fk \in BOOLEAN : create_task_commit(t, u, fk)
    \/ \E u \in StatusTaskUuids, data \in StatusAnyBodies : update_task_status(u, data)
    \/ \E t \in DOMAIN threads, u \in StatusTaskUuids : execute_task(t, u)
    \/ \E t \in DOMAIN threads : execute_task_commit(t)
    \/ \E t \in DOMAIN threads, o \in CallOutcomes : execute_task_response(t, o)

SpecStatus == Init /\ [][NextStatus]_vars

\* C12: in every reachable state a task with both started-at and
\* completed-at set has started-at <= completed-at.
C12_StartedBeforeCompleted ==
    \A pk \in TaskPks :
        (tasks[pk].started_at # NULL_TIME /\ tasks[pk].completed_at # NULL_TIME)
            => tasks[pk].started_at <= tasks[pk].completed_at

\* the clock reading an ISO timestamp denotes
ReadingOf(s) == s[2]

\* C13: once a task has been dispatched and is running, the agent's report
\* of completed with result R makes GET /tasks/<task_id> show status
\* completed, result R, and a started-at no later than the completed-at.
C13_AgentCompletionShown ==
    [][\A u \in StatusTaskUuids, data \in StatusAnyBodies :
        (/\ Has(data, "status") /\ Has(data, "result")
         /\ data["status"] = "completed"
         /\ TaskExists(u)
         /\ pushed[u] > 0
         /\ tasks[TaskPkOf(u)].status = "running"
         /\ update_task_status(u, data))
        => LET d == to_dict(tasks'[TaskPkOf(u)])
           IN /\ d.status = "completed"
              /\ d.result = data["result"]
              /\ d.started_at # <<>>
              /\ d.completed_at # <<>>
              /\ ReadingOf(d.started_at) <= ReadingOf(d.completed_at)]_vars

\* the agent has just reported completed with r1 for a task that was
\* dispatched at an earlier clock reading
C13_Witness ==
    /\ resp.op = "update_task_status"
    /\ resp.code = 200
    /\ \E pk \in TaskPks :
        /\ pushed[tasks[pk].task_id] > 0
        /\ to_dict(tasks[pk]).status = "completed"
        /\ to_dict(tasks[pk]).result = "r1"
        /\ tasks[pk].error_message = NULL_STR
        /\ tasks[pk].started_at # NULL_TIME
        /\ tasks[pk].started_at < tasks[pk].completed_at
        /\ tasks[pk].completed_at = now

\* C14: the dispatcher's failure write and the agent's completed report are
\* not serialised and the later write decides the status: a failed call
\* turns a task the agent already reported completed into failed, and a
\* completed report turns a task the dispatcher already failed into
\* completed.
C14_LastWriteWins ==
    [][/\ \A t \in DOMAIN threads, o \in {"non200", "RequestException"} :
            (/\ threads[t] # Idle
             /\ threads[t].op = "execute_task"
             /\ threads[t].pc = "calling"
             /\ tasks[threads[t].pk].status = "completed"
             /\ execute_task_response(t, o))
            => tasks'[threads[t].pk].status = "failed"
       /\ \A u \in TaskUuids, data \in StatusBodies :
            (/\ data["status"] = "completed"
             /\ TaskExists(u)
             /\ tasks[TaskPkOf(u)].status = "failed"
             /\ tasks[TaskPkOf(u)].error_message = "Failed to communicate with agent"
             /\ update_task_status(u, data))
            => tasks'[TaskPkOf(u)].status = "completed"]_vars

\* both orders of the race have happened: one task ended failed although
\* the agent's result is stored, another ended completed although the
\* dispatcher's failure is stored
C14_Witness ==
    \E i, j \in TaskPks :
        /\ tasks[i].status = "failed"
        /\ tasks[i].result = json_dumps("r1")
        /\ tasks[i].error_message = "Failed to communicate with agent"
        /\ tasks[j].status = "completed"
        /\ tasks[j].result = json_dumps("r1")
        /\ tasks[j].error_message = "Failed to communicate with agent"

C16_StartedAtOnlyFromPending ==
    [][\A u \in StatusTaskUuids, data \in StatusAnyBodies :
        (/\ Has(data, "status")
         /\ data["status"] = "running"
         /\ TaskExists(u)
         /\ update_task_status(u, data))
        => IF tasks[TaskPkOf(u)].status = "pending"
           THEN tasks'[TaskPkOf(u)].started_at = now
           ELSE tasks'[TaskPkOf(u)].started_at = tasks[TaskPkOf(u)].started_at]_vars

\* the agent has just reported running, at a later clock reading, for a
\* task the dispatcher started: started-at is still the dispatcher's
C16_Witness ==
    /\ resp.op = "update_task_status"
    /\ resp.code = 200
    /\ resp.body = "running"
    /\ \E pk \in TaskPks :
        /\ pushed[tasks[pk].task_id] > 0
        /\ tasks[pk].status = "running"
        /\ tasks[pk].started_at # NULL_TIME
        /\ tasks[pk].started_at < now
        /\ tasks[pk].completed_at = NULL_TIME

\* C17: every status update to completed, failed or cancelled stamps
\* completed-at; in every reachable state a terminal task has completed-at
\* set; a task enters the ledger with completed-at unset and no step sets
\* completed-at while leaving the task pending or running, so a pending or
\* running task that only create and dispatch have touched has it unset.
C17_CompletedAtOnTerminal ==
    /\ [](\A pk \in TaskPks : Terminal(tasks[pk]) => tasks[pk].completed_at # NULL_TIME)
    /\ [][/\ \A u \in StatusTaskUuids, data \in StatusAnyBodies :
                (/\ Has(data, "status")
                 /\ data["status"] \in {"completed", "failed", "cancelled"}
                 /\ TaskExists(u)
                 /\ update_task_status(u, data))
                => tasks'[TaskPkOf(u)].completed_at = now
          /\ \A pk \in DOMAIN tasks' :
                IF pk \in TaskPks
                THEN tasks'[pk].completed_at # tasks[pk].completed_at
                        => Terminal(tasks'[pk])
                ELSE tasks'[pk].completed_at = NULL_TIME]_vars

\* a status update has just cancelled a task that was never started
C17_Witness ==
    /\ resp.op = "update_task_status"
    /\ resp.code = 200
    /\ resp.body = "cancelled"
    /\ \E pk \in TaskPks :
        /\ tasks[pk].status = "cancelled"
        /\ tasks[pk].started_at = NULL_TIME
        /\ tasks[pk].completed_at = now
        /\ tasks[pk].created_at < now

\* C18: a status update changes only what its body supplies: without a
\* status, the status, started-at and completed-at stay; without a result
\* the result stays; without an error message the error message stays; a
\* supplied result or error message is stored; no other column and no
\* other task changes.
C18_PartialUpdate ==
    [][\A u \in StatusTaskUuids, data \in StatusAnyBodies :
        (TaskExists(u) /\ update_task_status(u, data))
        => LET old == tasks[TaskPkOf(u)]
               new == tasks'[TaskPkOf(u)]
           IN /\ ~Has(data, "status")
                    => /\ new.status = old.status
                       /\ new.started_at = old.started_at
                       /\ new.completed_at = old.completed_at
              /\ new.result = IF Has(data, "result")
                              THEN json_dumps(data["result"]) ELSE old.result
              /\ new.error_message = IF Has(data, "error_message")
                                     THEN data["error_message"] ELSE old.error_message
              /\ new = [old EXCEPT !.status = new.status,
                                   !.started_at = new.started_at,
                                   !.completed_at = new.completed_at,
                                   !.result = new.result,
                                   !.error_message = new.error_message]
              /\ \A pk \in TaskPks \ {TaskPkOf(u)} : tasks'[pk] = tasks[pk]
              /\ Len(tasks') = Len(tasks)]_vars

\* an update carrying only an error message has just been stored on a
\* completed task whose result, status and timestamps stay
C18_Witness ==
    /\ resp.op = "update_task_status"
    /\ resp.code = 200
    /\ resp.body = "completed"
    /\ \E pk \in TaskPks :
        /\ tasks[pk].status = "completed"
        /\ tasks[pk].result = json_dumps("r1")
        /\ tasks[pk].error_message = "boom"
        /\ tasks[pk].completed_at < now

(* ------------------------------ creation ------------------------------- *)
\* C19: create answers 404 when the agent is absent and 400 when it is
\* registered but not active, and adds no task in either case; otherwise
\* the insert adds exactly one task, pending, with an id no existing task
\* has and with started-at, completed-at, result and error message unset.
\* The insert goes through whenever the id drawn is new and the agent is
\* still registered; a refused insert adds nothing.
C19_CreateContract ==
    [][/\ \A t \in DOMAIN threads, data \in CreateBodies :
            (FreeThread(t) /\ Has(data, "agent_id") /\ create_task(t, data))
            => /\ tasks' = tasks
               /\ IF ~AgentExists(data["agent_id"])
                  THEN resp'.code = 404 /\ threads' = threads
                  ELSE IF AgentRow(data["agent_id"]).status # "active"
                  THEN resp'.code = 400 /\ threads' = threads
                  ELSE threads'[t] = [op |-> "create_task", data |-> data]
       /\ \A t \in DOMAIN threads, u \in TaskUuids, fk \in BOOLEAN :
            (/\ threads[t] # Idle
             /\ threads[t].op = "create_task"
             /\ create_task_commit(t, u, fk))
            => /\ (~TaskExists(u) /\ AgentExists(threads[t].data["agent_id"]))
                    => resp'.code = 201
               /\ IF resp'.code = 201
                  THEN /\ Len(tasks') = Len(tasks) + 1
                       /\ SubSeq(tasks', 1, Len(tasks)) = tasks
                       /\ LET new == tasks'[Len(tasks')]
                          IN /\ new.task_id = u
                             /\ \A pk \in TaskPks : tasks[pk].task_id # u
                             /\ new.agent_id = threads[t].data["agent_id"]
                             /\ new.status = "pending"
                             /\ new.started_at = NULL_TIME
                             /\ new.completed_at = NULL_TIME
                             /\ new.result = NULL_JSON
                             /\ new.error_message = NULL_STR
                  ELSE tasks' = tasks]_vars

\* a second task has just been created next to an existing one
C19_Witness ==
    /\ resp.op = "create_task"
    /\ resp.code = 201
    /\ Len(tasks) = 2
    /\ tasks[1].task_id # tasks[2].task_id
    /\ tasks[2].status = "pending"
    /\ tasks[2].result = NULL_JSON
    /\ tasks[2].started_at = NULL_TIME

\* a create has just been refused because the agent is not active
C19_WitnessNotActive ==
    /\ resp.op = "create_task"
    /\ resp.code = 400
    /\ resp.body = "Agent is not active"

(* ------------- heartbeats next to other agents and to tasks ------------ *)
HeartbeatCreateBodies ==
    {("agent_id" :> i) @@ ("task_type" :> "generate_blog") : i \in AgentIds}

NextHeartbeat ==
    \/ Tick
    \/ \E t \in DOMAIN threads, data \in RegistryRegisterBodies : register_agent(t, data)
    \/ \E t \in DOMAIN threads : register_agent_commit(t)
    \/ \E id \in AgentIds, data \in RegistryUpdateBodies : update_agent(id, data)
    \/ \E id \in AgentIds : agent_heartbeat(id)
    \/ \E t \in DOMAIN threads, data \in HeartbeatCreateBodies : create_task(t, data)
    \/ \E t \in DOMAIN threads, u \in StatusTaskUuids, fk \in BOOLEAN : create_task_commit(t, u, fk)

SpecHeartbeat == Init /\ [][NextHeartbeat]_vars

\* C20 as stated: a heartbeat of a registered agent sets last_heartbeat to
\* now and the status to active, and changes no other field of that agent,
\* no other agent and no task.
C20_HeartbeatChangesNothingElse ==
    [][\A id \in AgentIds :
        (AgentExists(id) /\ agent_heartbeat(id))
        => /\ agents' = (agents \ {AgentRow(id)})
                \cup {[AgentRow(id) EXCEPT !.last_heartbeat = now, !.status = "active"]}
           /\ tasks' = tasks]_vars

\* C20: a heartbeat of a registered agent sets last_heartbeat to now and
\* the status to active whatever the status was; of the agent's other
\* fields only updated_at changes, to now, and only when the heartbeat
\* changed the row; no other agent and no task changes.
C20_HeartbeatRefreshesUpdatedAt ==
    [][\A id \in AgentIds :
        (AgentExists(id) /\ agent_heartbeat(id))
        => LET a == AgentRow(id)
           IN /\ \E c \in agents' :
                    /\ c.id = id
                    /\ c.last_heartbeat = now
                    /\ c.status = "active"
                    /\ c.updated_at =
                         IF a.last_heartbeat # now \/ a.status # "active"
                         THEN now ELSE a.updated_at
                    /\ c = [a EXCEPT !.last_heartbeat = c.last_heartbeat,
                                     !.status = c.status,
                                     !.updated_at = c.updated_at]
                    /\ agents' \ {c} = agents \ {a}
              /\ tasks' = tasks
              /\ resp'.code = 200]_vars

\* a heartbeat has just been recorded, later than the agent's registration,
\* next to another agent that is not active and to a task
C20_Witness ==
    /\ resp.op = "agent_heartbeat"
    /\ resp.code = 200
    /\ tasks # <<>>
    /\ \E a, b \in agents :
        /\ a.id # b.id
        /\ a.last_heartbeat = now
        /\ a.status = "active"
        /\ a.created_at < now
        /\ a.updated_at = now
        /\ b.status = "error"
        /\ b.last_heartbeat # now

(* ---------------------- requests naming absent rows -------------------- *)
\* C21: a mutation naming an agent or a task that does not exist (update
\* and unregister of an agent, status update and dispatch of a task) is
\* answered 404, never 500, and leaves the store unchanged.
C21_AbsentEntityNotFound ==
    [][/\ \A id \in LedgerAgentIds, data \in UpdateAgentBodies :
            (~AgentExists(id) /\ update_agent(id, data))
            => resp'.code = 404 /\ agents' = agents /\ tasks' = tasks
       /\ \A id \in LedgerAgentIds :
            (~AgentExists(id) /\ unregister_agent(id))
            => resp'.code = 404 /\ agents' = agents /\ tasks' = tasks
       /\ \A u \in TaskUuids, data \in StatusBodies :
            (~TaskExists(u) /\ update_task_status(u, data))
            => resp'.code = 404 /\ agents' = agents /\ tasks' = tasks
       /\ \A t \in DOMAIN threads, u \in TaskUuids :
            (FreeThread(t) /\ ~TaskExists(u) /\ execute_task(t, u))
            => resp'.code = 404 /\ agents' = agents /\ tasks' = tasks]_vars

\* C30: in every reachable state every task's status is one of pending,
\* running, completed, failed and cancelled.
C30_StatusInEnumeration ==
    \A pk \in TaskPks : tasks[pk].status \in TaskStatuses

(* ----------------------------- registration --------------------------- *)
\* C28: a registration lacking id, name or endpoint is answered 400 and
\* persists nothing; one that supplies all three for an id that is not in
\* use goes on to the insert, and the insert of an id not in use answers 201
\* and adds exactly one agent, with that id, the supplied name and endpoint,
\* and status active.
C28_RegisterContract ==
    [][/\ \A t \in DOMAIN threads, data \in RegistryRegisterBodies :
            (FreeThread(t) /\ register_agent(t, data))
            => /\ agents' = agents
               /\ IF ~({"id", "name", "endpoint"} \subseteq DOMAIN data)
                  THEN resp'.code = 400 /\ threads' = threads
                  ELSE ~AgentExists(data["id"])
                        => threads'[t] = [op |-> "register_agent", data |-> data]
       /\ \A t \in DOMAIN threads :
            (/\ threads[t] # Idle
             /\ threads[t].op = "register_agent"
             /\ ~AgentExists(threads[t].data["id"])
             /\ register_agent_commit(t))
            => /\ resp'.code = 201
               /\ agents \subseteq agents'
               /\ Cardinality(agents' \ agents) = 1
               /\ \A a \in agents' \ agents :
                    /\ a.id = threads[t].data["id"]
                    /\ a.name = threads[t].data["name"]
                    /\ a.endpoint = threads[t].data["endpoint"]
                    /\ a.status = "active"]_vars

\* a second agent has just been registered, later than the first
C28_Witness ==
    /\ resp.op = "register_agent"
    /\ resp.code = 201
    /\ Cardinality(agents) = 2
    /\ \E a, b \in agents :
        /\ a.created_at < b.created_at
        /\ b.created_at = now
        /\ b.status = "active"
        /\ b.name = "n2"

(* --------------------------- agent updates ----------------------------- *)
\* bodies of PUT /agents/<agent_id>: every field is optional, and a body may
\* carry keys the handler does not read, such as id
UpdateAnyBodies ==
    {a @@ b @@ c @@ d @@ e @@ f :
        a \in Opt("name", {"n2"}), b \in Opt("description", {"d2"}),
        c \in Opt("endpoint", {"e2"}), d \in Opt("capabilities", {<<"news">>}),
        e \in Opt("status", {"inactive"}), f \in Opt("id", {"a2"})}

NextUpdate ==
    \/ Tick
    \/ \E t \in DOMAIN threads, data \in RegistryRegisterBodies : register_agent(t, data)
    \/ \E t \in DOMAIN threads : register_agent_commit(t)
    \/ \E id \in LedgerAgentIds, data \in UpdateAnyBodies : update_agent(id, data)
    \/ \E id \in LedgerAgentIds : agent_heartbeat(id)
    \/ \E id \in LedgerAgentIds : unregister_agent(id)

SpecUpdate == Init /\ [][NextUpdate]_vars

\* C29: an update of a registered agent writes the fields its body carries
\* among name, description, endpoint, capabilities and status, sets
\* updated_at to now, and leaves every other field, the agent's id and every
\* other agent as they were; no update or heartbeat changes the set of ids.
C29_UpdateMergesSupplied ==
    [][/\ \A id \in LedgerAgentIds, data \in UpdateAnyBodies :
            (resp'.op = "update_agent" /\ AgentExists(id) /\ update_agent(id, data))
            => LET a == AgentRow(id)
               IN \E c \in agents' :
                    /\ c.id = id
                    /\ c.name = IF Has(data, "name") THEN data["name"] ELSE a.name
                    /\ c.description = IF Has(data, "description")
                                       THEN data["description"] ELSE a.description
                    /\ c.endpoint = IF Has(data, "endpoint")
                                    THEN data["endpoint"] ELSE a.endpoint
                    /\ c.capabilities = IF Has(data, "capabilities")
                                        THEN json_dumps(data["capabilities"])
                                        ELSE a.capabilities
                    /\ c.status = IF Has(data, "status") THEN data["status"] ELSE a.status
                    /\ c.updated_at = now
                    /\ c.created_at = a.created_at
                    /\ c.last_heartbeat = a.last_heartbeat
                    /\ agents' \ {c} = agents \ {a}
       /\ (resp'.op \in {"update_agent", "agent_heartbeat"})
            => {a.id : a \in agents'} = {a.id : a \in agents}]_vars

\* an update carrying a description and an id has just been applied, later
\* than the registration: the description is new, the rest is as registered
C29_Witness ==
    /\ resp.op = "update_agent"
    /\ resp.code = 200
    /\ \E a \in agents :
        /\ a.id = "a1"
        /\ a.name = "n1"
        /\ a.description = "d2"
        /\ a.endpoint = "e1"
        /\ a.status = "active"
        /\ a.created_at < now
        /\ a.updated_at = now
    /\ \A a \in agents : a.id = "a1"

(* ------------- agent status next to dispatches and the clock ----------- *)
NextDispatch ==
    \/ Tick
    \/ \E t \in DOMAIN threads, data \in RegisterBodies : register_agent(t, data)
    \/ \E t \in DOMAIN threads : register_agent_commit(t)
    \/ \E id \in LedgerAgentIds, data \in UpdateAgentBodies : update_agent(id, data)
    \/ \E id \in LedgerAgentIds : agent_heartbeat(id)
    \/ \E t \in DOMAIN threads, data \in CreateBodies : create_task(t, data)
    \/ \E t \in DOMAIN threads, u \in StatusTaskUuids, fk \in BOOLEAN : create_task_commit(t, u, fk)
    \/ \E u \in StatusTaskUuids, data \in StatusBodies : update_task_status(u, data)
    \/ \E t \in DOMAIN threads, u \in StatusTaskUuids : execute_task(t, u)
    \/ \E t \in DOMAIN threads : execute_task_commit(t)
    \/ \E t \in DOMAIN threads, o \in CallOutcomes : execute_task_response(t, o)

SpecDispatch == Init /\ [][NextDispatch]_vars

\* C27: an agent's status changes only in a step of update_agent or
\* agent_heartbeat, and an agent appears only in a step of register_agent:
\* no dispatch step whatever its outcome, no task operation and no advance
\* of the clock changes the registry.
C27_StatusCallerDriven ==
    [][/\ \A id \in LedgerAgentIds :
            (AgentExists(id) /\ AgentExists(id)'
                /\ AgentRow(id)'.status # AgentRow(id).status)
            => resp'.op \in {"update_agent", "agent_heartbeat"}
       /\ (resp'.op \notin {"update_agent", "agent_heartbeat", "register_agent"})
            => agents' = agents]_vars

\* a dispatch has just failed to reach the agent, long after the agent's
\* last heartbeat, and the agent is still active
C27_Witness ==
    /\ resp.op = "execute_task"
    /\ resp.code = 500
    /\ resp.body = "Failed to communicate with agent"
    /\ \E a \in agents :
        /\ a.status = "active"
        /\ a.last_heartbeat < now
    /\ \E pk \in TaskPks : tasks[pk].status = "failed"

(* ------------------------- one agent process -------------------------- *)
\* what the register call of start can bring back: 201, or anything else
\* (409 for an id that is still registered, another status, no answer)
RegisterOutcomes == {"201", "other"}

\* what the coordinator can answer to a call of the agent, or not answer
UpstreamOutcomes == {"200", "non200", "RequestException"}

InitAgent ==
    /\ agents = {}
    /\ tasks = <<>>
    /\ now = 1
    /\ threads = [t \in {1} |-> Idle]
    /\ pushed = [u \in TaskUuids |-> 0]
    /\ resp = NoResp
    /\ \E class \in AgentClasses : AgentInit(class)

\* the agent's main thread, its heartbeat thread and one /execute request
\* at a time, in any interleaving
NextAgent ==
    \/ \E o \in RegisterOutcomes : start(o)
    \/ stop_heartbeat
    \/ unregister_from_mcp
    \/ heartbeat_loop_test
    \/ heartbeat_post
    \/ \E o \in UpstreamOutcomes : send_heartbeat(o)
    \/ heartbeat_wake
    \/ \E ty \in TaskTypes \cup {""} : execute_endpoint(ty)
    \/ handle_missing
    \/ \E o \in UpstreamOutcomes : handle_unsupported(o)
    \/ \E o \in UpstreamOutcomes : handle_running(o)
    \/ \E w \in WorkOutcomes : handle_execute(w)
    \/ \E o \in UpstreamOutcomes : handle_terminal(o)
    \/ execute_endpoint_return

SpecAgent == InitAgent /\ [][NextAgent]_vars

C24_ExecutorFailureReportsFailed ==
    (handler.outcome \in {"raised", "returned_error"})
    => /\ \A i \in 1..Len(handler.reports) : handler.reports[i].status # "completed"
       /\ handler.pc \in {"returning", "idle"}
            => \E i \in 1..Len(handler.reports) : handler.reports[i].status = "failed"

(* --------------------------- the heartbeat loop ------------------------ *)
\* a step of the heartbeat thread
HeartbeatStep ==
    \/ heartbeat_loop_test
    \/ heartbeat_post
    \/ \E o \in UpstreamOutcomes : send_heartbeat(o)
    \/ heartbeat_wake

\* the heartbeat thread is a thread of its own, which the scheduler does not
\* starve
SpecAgentLive == InitAgent /\ [][NextAgent]_vars /\ WF_vars(HeartbeatStep)

\* C25: whatever the answer to a heartbeat, the thread goes to sleep and
\* neither is_running nor the lifecycle nor the request being served
\* changes; a heartbeat is posted only from the loop body, entered only
\* after the loop condition, tested only on entry and after a sleep; the
\* thread is never blocked by a request being served, and while is_running
\* holds a sleeping loop goes on to post its next heartbeat.
C25_HeartbeatFailureHarmless ==
    /\ [][/\ \A o \in UpstreamOutcomes :
                (heartbeat_thread = "post" /\ send_heartbeat(o))
                => /\ heartbeat_thread' = "sleep"
                   /\ is_running' = is_running
                   /\ main' = main
                   /\ handler' = handler
          /\ (heartbeat_thread' = "post" /\ heartbeat_thread # "post")
                => heartbeat_thread = "send"
          /\ (heartbeat_thread' = "send" /\ heartbeat_thread # "send")
                => heartbeat_thread = "test" /\ is_running
          /\ (heartbeat_thread' = "test" /\ heartbeat_thread # "test")
                => heartbeat_thread \in {"sleep", "none", "exited"}]_vars
    /\ [](HeartbeatAlive => ENABLED HeartbeatStep)
    /\ ((heartbeat_thread = "sleep" /\ is_running)
            ~> (heartbeat_thread = "post" \/ ~is_running))

\* a heartbeat has just failed while a request is being executed: the loop
\* sleeps, the agent is still running
C25_Witness ==
    /\ heartbeat_thread = "sleep"
    /\ heartbeat_log = "warning"
    /\ is_running
    /\ main = "serving"
    /\ handler.pc = "executed"

\* C26: stop clears is_running before it issues the unregister call, and
\* once the unregister call has been issued the agent posts no further
\* heartbeat (until it is started again).
C26_NoHeartbeatAfterUnregister ==
    [][/\ (main' = "stopped" /\ main # "stopped") => ~is_running
       /\ (heartbeat_thread = "send" /\ heartbeat_thread' = "post")
            => main # "stopped"]_vars

(* ------------------ how a coordinator call can end --------------------- *)
\* the two answers with which execute_task reports a failed push
DispatchFailureBodies == {"Agent execution failed", "Failed to communicate with agent"}

\* C31: a step that answers with an error leaves both tables as they were,
\* unless the error is a dispatch failure, and then the only change is that
\* the dispatched task is failed with its error message and completed_at;
\* a step that answers with success has its mutation in the tables: the
\* registered agent is there, the unregistered one is gone, the created
\* task is the last row and pending.
C31_SuccessOrError ==
    [][/\ (resp'.code >= 400 /\ ~(resp'.op = "execute_task" /\ resp'.body \in DispatchFailureBodies))
            => (agents' = agents /\ tasks' = tasks)
       /\ (resp'.op = "execute_task" /\ resp'.body \in DispatchFailureBodies)
            => /\ resp'.code = 500
               /\ agents' = agents
               /\ \E pk \in TaskPks :
                    /\ tasks'[pk].status = "failed"
                    /\ tasks'[pk].error_message \in {"Agent returned status", "Failed to communicate with agent"}
                    /\ tasks'[pk].completed_at = now
                    /\ tasks' = [tasks EXCEPT ![pk] = tasks'[pk]]
       /\ (resp'.op = "register_agent" /\ resp'.code = 201)
            => \E a \in agents' : agents' = agents \cup {a} /\ a \notin agents
       /\ (resp'.op = "unregister_agent" /\ resp'.code = 204)
            => \E a \in agents : agents' = agents \ {a} /\ ~\E b \in agents' : b.id = a.id
       /\ (resp'.op = "create_task" /\ resp'.code = 201)
            => /\ Len(tasks') = Len(tasks) + 1
               /\ tasks'[Len(tasks')].status = "pending"
               /\ \A i \in TaskPks : tasks'[i] = tasks[i]]_vars

\* an unregister has just failed on an agent that has a pending task, which
\* is still pending
C31_Witness ==
    /\ resp.op = "unregister_agent"
    /\ resp.code = 500
    /\ AgentExists("a1")
    /\ \E i \in TaskPks : tasks[i].agent_id = "a1" /\ tasks[i].status = "pending"

(* ------------------------- priorities of tasks ------------------------- *)
\* create_task takes the body's priority as it comes (line 185): bodies with
\* a priority inside and outside 1..10, and bodies with none
AnyPriorities == {0, 1, 10, 11}

PriorityCreateBodies ==
    {("agent_id" :> "a1") @@ ("task_type" :> "generate_blog") @@ c :
        c \in Opt("priority", AnyPriorities)}

NextPriority ==
    \/ Tick
    \/ \E t \in DOMAIN threads, data \in RegisterBodies : register_agent(t, data)
    \/ \E t \in DOMAIN threads : register_agent_commit(t)
    \/ \E t \in DOMAIN threads, data \in PriorityCreateBodies : create_task(t, data)
    \/ \E t \in DOMAIN threads, u \in TaskUuids, fk \in BOOLEAN : create_task_commit(t, u, fk)

SpecPriority == Init /\ [][NextPriority]_vars

\* C32: every task of the ledger has a priority in 1..10, and a task
\* created from a body without a priority has priority 5.
C32_PriorityInRange ==
    /\ [](\A i \in TaskPks : tasks[i].priority \in 1..10)
    /\ [][\A t \in DOMAIN threads :
            (/\ threads[t].op = "create_task"
             /\ ~Has(threads[t].data, "priority")
             /\ Len(tasks') = Len(tasks) + 1)
            => tasks'[Len(tasks')].priority = 5]_vars

(* ------------------- dispatches that run concurrently ------------------ *)
\* two dispatch requests may be mid-handler at once, each on its own thread
\* with its own session
NextConcurrent ==
    \/ \E t \in DOMAIN threads, data \in RegisterBodies : register_agent(t, data)
    \/ \E t \in DOMAIN threads : register_agent_commit(t)
    \/ \E t \in DOMAIN threads, data \in CreateBodies : create_task(t, data)
    \/ \E t \in DOMAIN threads, u \in StatusTaskUuids, fk \in BOOLEAN : create_task_commit(t, u, fk)
    \/ \E t \in DOMAIN threads, u \in StatusTaskUuids : execute_task(t, u)
    \/ \E t \in DOMAIN threads : execute_task_commit(t)
    \/ \E t \in DOMAIN threads, o \in CallOutcomes : execute_task_response(t, o)

SpecConcurrent == InitRegistry /\ [][NextConcurrent]_vars

\* C33: a task is pushed to its agent's execute endpoint at most once, and
\* at most one dispatch request at a time is past the pending check for it
\* (no status report re-queues a task here, so a task is pending once).
C33_PushedAtMostOnce ==
    /\ \A u \in TaskUuids : pushed[u] <= 1
    /\ \A t1, t2 \in DOMAIN threads :
        (/\ t1 # t2
         /\ threads[t1].op = "execute_task"
         /\ threads[t2].op = "execute_task") => threads[t1].pk # threads[t2].pk

(* ---------------- a dispatch overtaken by an unregister ----------------- *)
\* the dispatch requests that have loaded task i and not yet answered
InFlight(i) == {t \in DOMAIN threads : threads[t].op = "execute_task" /\ threads[t].pk = i}

\* a task carries unregister's cancellation mark
CancelledByUnregister(row) == row.error_message = "Agent unregistered"

\* no task is running with unregister's mark, and no dispatch writes
\* `running` over, or pushes, a task that carries it
C34_NoRunningAfterCancel ==
    /\ [](\A i \in TaskPks : ~(tasks[i].status = "running" /\ CancelledByUnregister(tasks[i])))
    /\ [][\A t \in DOMAIN threads :
            execute_task_commit(t) => ~CancelledByUnregister(tasks[threads[t].pk])]_vars

C35_LoopLiveWhileServing ==
    main = "serving" => (is_running /\ HeartbeatAlive)

(* --------------------- a start whose register fails -------------------- *)
\* C39: a start whose register call did not bring 201 returns False and
\* neither sets is_running nor creates a heartbeat thread; a heartbeat
\* thread comes into being only in a start that succeeded, and a heartbeat
\* is posted only by a heartbeat thread, so an agent whose every start
\* failed has sent no heartbeat.
C39_NoHeartbeatWithoutRegister ==
    /\ [][/\ \A o \in RegisterOutcomes \ {"201"} :
                (main \in {"created", "stopped"} /\ start(o))
                => /\ main' = "created"
                   /\ is_running' = is_running
                   /\ heartbeat_thread' = heartbeat_thread
          /\ (~HeartbeatAlive /\ HeartbeatAlive')
                => (main # "serving" /\ main' = "serving")
          /\ (heartbeat_thread' = "post" /\ heartbeat_thread # "post")
                => heartbeat_thread = "send"]_vars
    /\ [](heartbeat_thread = "none" => (~is_running /\ main = "created"))

\* a start has failed (after an earlier run that was stopped and whose
\* loop has ended) and there is no heartbeat loop
C39_Witness ==
    /\ main = "created"
    /\ heartbeat_thread = "exited"
    /\ ~is_running

(* -------------------- pending tasks and their agents -------------------- *)
\* C37: in every reachable state every pending task refers to an agent id
\* that is registered.
C37_PendingHasAgent ==
    \A i \in TaskPks : tasks[i].status = "pending" => AgentExists(tasks[i].agent_id)

(* ------------------- the aggregate status of the system ---------------- *)
NextSystem ==
    \/ \E t \in DOMAIN threads, data \in RegisterBodies : register_agent(t, data)
    \/ \E t \in DOMAIN threads : register_agent_commit(t)
    \/ \E id \in LedgerAgentIds, data \in UpdateAgentBodies : update_agent(id, data)
    \/ \E t \in DOMAIN threads, data \in CreateBodies : create_task(t, data)
    \/ \E t \in DOMAIN threads, u \in TaskUuids, fk \in BOOLEAN : create_task_commit(t, u, fk)
    \/ \E u \in TaskUuids, data \in StatusBodies : update_task_status(u, data)
    \/ get_system_status

SpecSystem == Init /\ [][NextSystem]_vars

\* C38: the status answer's totals are the numbers of Agent and of Task
\* records in the store, and each total is the sum of the per-status counts
\* over all statuses (for tasks: pending, running, completed, failed,
\* cancelled).
C38_TotalsCountRecords ==
    resp.op = "get_system_status" =>
        LET st == resp.rows[1] IN
        /\ st.agents.total = Cardinality(agents)
        /\ st.agents.total = st.agents.active + st.agents.inactive + st.agents.error
        /\ st.tasks.total = Len(tasks)
        /\ st.tasks.total = st.tasks.pending + st.tasks.running + st.tasks.completed
                            + st.tasks.failed + CountTasks("cancelled")

(* ------------- the coordinator and an agent, one dispatch -------------- *)
\* The agent's /execute handler and the dispatcher's POST are one call: the
\* agent's reports are PUTs that the coordinator serves while its own
\* request thread waits for the answer of the POST.
RunCreateBodies ==
    {("agent_id" :> "a1") @@ ("task_type" :> ty) : ty \in TaskTypes}

\* the dispatcher's POST has gone out and has not been answered
Dispatching(t) == threads[t].op = "execute_task" /\ threads[t].pc = "calling"

\* the task of the request the agent is serving: the one that was pushed
TaskOfRequest == CHOOSE u \in TaskUuids : pushed[u] > 0

\* the body MCPAgent.update_task_status builds, lines 128-134
ReportBody(status, payload) ==
    IF payload = "result" THEN ("status" :> status) @@ ("result" :> "r1")
    ELSE IF payload = "error_message" THEN ("status" :> status) @@ ("error_message" :> "boom")
    ELSE "status" :> status

\* the POST of execute_task (lines 270-274) reaches the agent
post_execute ==
    \E t \in DOMAIN threads :
        /\ Dispatching(t)
        /\ execute_endpoint(tasks[threads[t].pk].task_type)

\* a report that the coordinator receives and answers with 200
report_unsupported ==
    /\ handle_unsupported_step("200")
    /\ update_task_status_step(TaskOfRequest, ReportBody("failed", "error_message"))

report_running ==
    /\ handle_running_step("200")
    /\ update_task_status_step(TaskOfRequest, ReportBody("running", "none"))

report_terminal ==
    LET r == TerminalReport(handler.outcome, "200") IN
    /\ handle_terminal_step("200")
    /\ update_task_status_step(TaskOfRequest, ReportBody(r.status, r.payload))

\* a report that does not reach the coordinator, or that it refuses
report_lost ==
    \E o \in UpstreamOutcomes \ {"200"} :
        \/ handle_unsupported(o)
        \/ handle_running(o)
        \/ handle_terminal(o)

\* the agent's answer, always a 200 (jsonify of a dict), reaches the
\* dispatcher while it waits
answer_execute ==
    \E t \in DOMAIN threads :
        /\ Dispatching(t)
        /\ execute_endpoint_return_step
        /\ execute_task_response_step(t, "200")

\* the dispatcher's POST fails: no connection, or no answer within timeout=30
post_fails ==
    \E t \in DOMAIN threads, o \in CallOutcomes \ {"200"} : execute_task_response(t, o)

\* the agent answers a dispatcher that has given up waiting
answer_late ==
    /\ \A t \in DOMAIN threads : ~Dispatching(t)
    /\ execute_endpoint_return

NextRun ==
    \/ \E t \in DOMAIN threads, data \in RegisterBodies : register_agent(t, data)
    \/ \E t \in DOMAIN threads : register_agent_commit(t)
    \/ \E t \in DOMAIN threads, data \in RunCreateBodies : create_task(t, data)
    \/ \E t \in DOMAIN threads, u \in StatusTaskUuids, fk \in BOOLEAN : create_task_commit(t, u, fk)
    \/ \E t \in DOMAIN threads, u \in StatusTaskUuids : execute_task(t, u)
    \/ \E t \in DOMAIN threads : execute_task_commit(t)
    \/ post_execute
    \/ report_unsupported
    \/ report_running
    \/ \E w \in WorkOutcomes : handle_execute(w)
    \/ report_terminal
    \/ report_lost
    \/ answer_execute
    \/ post_fails
    \/ answer_late

\* the agent's handler runs on: its executor returns and its PUTs come back
HandlerStep ==
    \/ report_unsupported
    \/ report_running
    \/ \E w \in WorkOutcomes : handle_execute(w)
    \/ report_terminal
    \/ report_lost

SpecRun == Init /\ [][NextRun]_vars /\ WF_vars(HandlerStep)

\* the agent has taken the request on: its type is one the agent declares
Accepted == handler.pc \in {"running_reported", "executed"}

\* every report the handler has made so far was received with a 200
Delivered == \A i \in 1..Len(handler.reports) : handler.reports[i].logged = "info"

\* the status of the pushed task, "none" while no task has been pushed
PushedStatus ==
    IF \E u \in TaskUuids : pushed[u] > 0 /\ TaskExists(u)
    THEN tasks[TaskPkOf(TaskOfRequest)].status ELSE "none"

\* C36: a task that the dispatcher has moved to running and pushed, and
\* that the agent has accepted, reaches a terminal status as long as the
\* executor returns and the agent's reports are delivered; no step of the
\* coordinator other than serving those reports is needed: by the time the
\* agent answers the POST the task is terminal.
C36_RunningReachesTerminal ==
    /\ (Accepted /\ Delivered) ~> (PushedStatus \in {"completed", "failed", "cancelled"} \/ ~Delivered)
    /\ [][(/\ handler.pc = "returning"
           /\ handler'.pc = "idle"
           /\ handler.calls > 0
           /\ Delivered)
          => PushedStatus \in {"completed", "failed", "cancelled"}]_vars

\* the agent has answered a dispatch whose reports were all delivered, the
\* dispatcher has answered 200 in the same step, and the task is completed
C36_Witness ==
    /\ resp.op = "execute_task"
    /\ resp.code = 200
    /\ handler.pc = "idle"
    /\ Len(handler.reports) = 2
    /\ Delivered
    /\ PushedStatus = "completed"

====
